---- MODULE Spec2Model ----
(***************************************************************************)
(* Model of go-notion-tools: the property value extractor of               *)
(* internal/notion, the querying command (main.go, first program) and the  *)
(* people upsert command (main.go, second program).                        *)
(*                                                                         *)
(* A Go string is a sequence of one-character strings, so that trimming,   *)
(* splitting and concatenation are computed.  A Go pointer is a sequence   *)
(* of length 0 (nil) or 1 (the value pointed to).  A float64 is a count    *)
(* of tenths (25 is 2.5), formatted digit by digit.                        *)
(***************************************************************************)
EXTENDS Integers, Sequences, FiniteSets, TLC

VARIABLES
    args,            \* command line: which flags were passed
    script,          \* the data source as the server pages it: cursor |-> response
    pc,              \* position of main
    cursor,          \* main's cursor (pointer)
    resp,            \* main's resp, the response being processed
    pg,              \* index in resp.Results of the page being processed
    output,          \* lines written to standard output
    requests,        \* API requests issued so far in this run, in order
    responses,       \* query responses received so far in this run, in order
    people,          \* the People database: sequence of pages [ID, Title]
    relation,        \* source page ID |-> its "People" relation (sequence of IDs)
    cleanedPersons,  \* the split names of the page being processed
    pn,              \* index in cleanedPersons of the name being processed
    peoplePageIDs,   \* identifiers collected for the page being processed
    run,             \* which run of the command this is (1 or 2)
    peopleAtStart,   \* the People database when the current run started
    prop,            \* input of the extractor
    extracted        \* pointer to the extractor's result for prop

pipeVars == <<args, script, pc, cursor, resp, pg, output, requests, responses>>
upsertVars == <<people, relation, cleanedPersons, pn, peoplePageIDs, run, peopleAtStart>>
extractVars == <<prop, extracted>>
vars == <<pipeVars, upsertVars, extractVars>>

----------------------------------------------------------------------------
(* Bounds *)

MaxFrags == 2        \* longest list (fragments, options, users, refs, array) in a property value
MaxPages == 2        \* most pages in the data source
MaxQueries == 3      \* most query requests of one run

----------------------------------------------------------------------------
(* Strings *)

Nil == <<>>
Ptr(v) == <<v>>
IsNil(q) == Len(q) = 0
Deref(q) == q[1]

SeqsUpTo(S, n) == UNION {[1..k -> S] : k \in 0..n}

SP == " "
IsSpace(c) == c = SP

RECURSIVE TrimLeft(_)
TrimLeft(s) ==
    IF Len(s) > 0 /\ IsSpace(s[1]) THEN TrimLeft(Tail(s)) ELSE s

RECURSIVE TrimRight(_)
TrimRight(s) ==
    IF Len(s) > 0 /\ IsSpace(s[Len(s)]) THEN TrimRight(SubSeq(s, 1, Len(s) - 1)) ELSE s

\* strings.TrimSpace
TrimSpace(s) == TrimRight(TrimLeft(s))

\* strings.Index: position of the first occurrence of sep in s, 0 when there is none
Index(s, sep) ==
    LET hits == {k \in 1..(Len(s) - Len(sep) + 1) : SubSeq(s, k, k + Len(sep) - 1) = sep}
    IN  IF hits = {} THEN 0 ELSE CHOOSE k \in hits : \A h \in hits : k <= h

\* strings.Split for a non-empty separator
RECURSIVE Split(_, _)
Split(s, sep) ==
    LET k == Index(s, sep)
    IN  IF k = 0 THEN <<s>>
        ELSE <<SubSeq(s, 1, k - 1)>> \o Split(SubSeq(s, k + Len(sep), Len(s)), sep)

RECURSIVE Flatten(_)
Flatten(ss) == IF ss = <<>> THEN <<>> ELSE Head(ss) \o Flatten(Tail(ss))

DigitChars == <<"0", "1", "2", "3", "4", "5", "6", "7", "8", "9">>

RECURSIVE Digits(_)
Digits(n) == IF n < 10 THEN <<DigitChars[n + 1]>> ELSE Digits(n \div 10) \o <<DigitChars[(n % 10) + 1]>>

\* strconv.FormatFloat(f, 'f', -1, 64) of the float64 that is t tenths
FormatFloat(t) ==
    LET a == IF t < 0 THEN 0 - t ELSE t
    IN  (IF t < 0 THEN <<"-">> ELSE <<>>)
        \o Digits(a \div 10)
        \o (IF a % 10 = 0 THEN <<>> ELSE <<".">> \o Digits(a % 10))

\* strconv.FormatBool
FormatBool(b) == IF b THEN <<"t", "r", "u", "e">> ELSE <<"f", "a", "l", "s", "e">>

Arrow == <<" ", "→", " ">>

----------------------------------------------------------------------------
(* Property values: internal/notion *)

\* The zero PropertyValue of the given type: every payload field absent.
PropertyValue(type) ==
    [Type |-> type, Title |-> <<>>, RichText |-> <<>>, Select |-> Nil,
     MultiSelect |-> <<>>, Status |-> Nil, People |-> <<>>, Email |-> Nil,
     URL |-> Nil, PhoneNumber |-> Nil, Number |-> Nil, Checkbox |-> Nil,
     Date |-> Nil, Relation |-> <<>>, Formula |-> Nil, Rollup |-> Nil]

FormulaValue(type) ==
    [Type |-> type, String |-> Nil, Number |-> Nil, Boolean |-> Nil, Date |-> Nil]

RollupValue(type) ==
    [Type |-> type, Number |-> Nil, Date |-> Nil, Array |-> <<>>]

concatRichText(rts) ==
    TrimSpace(Flatten([k \in 1..Len(rts) |-> rts[k].PlainText]))

\* case "title", case "rich_text"
ExtractText(rts) ==
    LET s == concatRichText(rts) IN IF s = <<>> THEN <<>> ELSE <<s>>

\* case "select", case "status"
ExtractOption(o) ==
    IF IsNil(o) \/ Deref(o).Name = <<>> THEN <<>> ELSE <<Deref(o).Name>>

RECURSIVE KeepNames(_)
KeepNames(os) ==
    IF os = <<>> THEN <<>>
    ELSE (IF Head(os).Name # <<>> THEN <<Head(os).Name>> ELSE <<>>) \o KeepNames(Tail(os))

\* the "multi_select" loop without its test of o.Name
ExtractMultiSelect_Unfiltered(os) == [k \in 1..Len(os) |-> os[k].Name]

\* case "multi_select"
ExtractMultiSelect(os) == KeepNames(os)

RECURSIVE ExtractPeople(_)
\* case "people"
ExtractPeople(us) ==
    IF us = <<>> THEN <<>>
    ELSE (IF Head(us).Name # <<>> THEN <<Head(us).Name>>
          ELSE IF Head(us).ID # <<>> THEN <<Head(us).ID>>
          ELSE <<>>) \o ExtractPeople(Tail(us))

\* case "email", case "url", case "phone_number", formula "string"
ExtractStringPtr(q) ==
    IF IsNil(q) \/ Deref(q) = <<>> THEN <<>> ELSE <<Deref(q)>>

\* case "number", formula "number", rollup "number"
ExtractNumber(q) == IF IsNil(q) THEN <<>> ELSE <<FormatFloat(Deref(q))>>

\* case "checkbox", formula "boolean"
ExtractBool(q) == IF IsNil(q) THEN <<>> ELSE <<FormatBool(Deref(q))>>

\* case "date", formula "date", rollup "date"
ExtractDate(q) ==
    IF IsNil(q) \/ Deref(q).Start = <<>> THEN <<>>
    ELSE IF ~IsNil(Deref(q).End) /\ Deref(Deref(q).End) # <<>>
         THEN <<Deref(q).Start \o Arrow \o Deref(Deref(q).End)>>
         ELSE <<Deref(q).Start>>

RECURSIVE ExtractRelation(_)
\* case "relation"
ExtractRelation(rs) ==
    IF rs = <<>> THEN <<>>
    ELSE (IF Head(rs).ID # <<>> THEN <<Head(rs).ID>> ELSE <<>>) \o ExtractRelation(Tail(rs))

\* case "formula"
ExtractFormula(q) ==
    IF IsNil(q) THEN <<>>
    ELSE LET f == Deref(q) IN
         CASE f.Type = "string"  -> ExtractStringPtr(f.String)
           [] f.Type = "number"  -> ExtractNumber(f.Number)
           [] f.Type = "boolean" -> ExtractBool(f.Boolean)
           [] f.Type = "date"    -> ExtractDate(f.Date)
           [] OTHER              -> <<>>

RECURSIVE ExtractStrings(_)
RECURSIVE ExtractArray(_)

\* rollup "array": the loop over p.Rollup.Array
ExtractArray(items) ==
    IF items = <<>> THEN <<>>
    ELSE ExtractStrings(Head(items)) \o ExtractArray(Tail(items))

ExtractStrings(p) ==
    CASE p.Type = "title"        -> ExtractText(p.Title)
      [] p.Type = "rich_text"    -> ExtractText(p.RichText)
      [] p.Type = "select"       -> ExtractOption(p.Select)
      [] p.Type = "status"       -> ExtractOption(p.Status)
      [] p.Type = "multi_select" -> ExtractMultiSelect(p.MultiSelect)
      [] p.Type = "people"       -> ExtractPeople(p.People)
      [] p.Type = "email"        -> ExtractStringPtr(p.Email)
      [] p.Type = "url"          -> ExtractStringPtr(p.URL)
      [] p.Type = "phone_number" -> ExtractStringPtr(p.PhoneNumber)
      [] p.Type = "number"       -> ExtractNumber(p.Number)
      [] p.Type = "checkbox"     -> ExtractBool(p.Checkbox)
      [] p.Type = "date"         -> ExtractDate(p.Date)
      [] p.Type = "relation"     -> ExtractRelation(p.Relation)
      [] p.Type = "formula"      -> ExtractFormula(p.Formula)
      [] p.Type = "rollup"       ->
            IF IsNil(p.Rollup) THEN <<>>
            ELSE LET r == Deref(p.Rollup) IN
                 CASE r.Type = "number" -> ExtractNumber(r.Number)
                   [] r.Type = "date"   -> ExtractDate(r.Date)
                   [] r.Type = "array"  -> ExtractArray(r.Array)
                   [] OTHER             -> <<>>
      [] OTHER                   -> <<>>

----------------------------------------------------------------------------
(* The extractor applied to one property value *)

Texts == {<<>>, <<SP>>, <<"a">>, <<SP, "b">>}
Names == {<<>>, <<SP>>, <<"a">>}
Numbers == {0 - 25, 0, 10, 25, 120}

OptPtr(S) == {Nil} \cup {Ptr(x) : x \in S}

RichTexts == {[PlainText |-> s] : s \in Texts}
SelectOptions == {[Name |-> s] : s \in Names}
Users == {[ID |-> u, Name |-> n] : u \in {<<>>, <<"u">>}, n \in {<<>>, <<"a">>}}
RelationRefs == {[ID |-> r] : r \in {<<>>, <<"r">>}}
DateValues == {[Start |-> s, End |-> e] : s \in {<<>>, <<"d">>}, e \in OptPtr({<<>>, <<"e">>})}

FormulaValues ==
    {FormulaValue("unknown")}
    \cup {[FormulaValue("string") EXCEPT !.String = q] : q \in OptPtr(Texts)}
    \cup {[FormulaValue("number") EXCEPT !.Number = q] : q \in OptPtr(Numbers)}
    \cup {[FormulaValue("boolean") EXCEPT !.Boolean = q] : q \in OptPtr(BOOLEAN)}
    \cup {[FormulaValue("date") EXCEPT !.Date = q] : q \in OptPtr(DateValues)}

LeafValues ==
    {PropertyValue("files")}
    \cup {[PropertyValue("title") EXCEPT !.Title = t] : t \in SeqsUpTo(RichTexts, MaxFrags)}
    \cup {[PropertyValue("rich_text") EXCEPT !.RichText = t] : t \in SeqsUpTo(RichTexts, MaxFrags)}
    \cup {[PropertyValue("select") EXCEPT !.Select = o] : o \in OptPtr(SelectOptions)}
    \cup {[PropertyValue("status") EXCEPT !.Status = o] : o \in OptPtr(SelectOptions)}
    \cup {[PropertyValue("multi_select") EXCEPT !.MultiSelect = os] : os \in SeqsUpTo(SelectOptions, MaxFrags)}
    \cup {[PropertyValue("people") EXCEPT !.People = us] : us \in SeqsUpTo(Users, MaxFrags)}
    \cup {[PropertyValue("email") EXCEPT !.Email = q] : q \in OptPtr(Texts)}
    \cup {[PropertyValue("url") EXCEPT !.URL = q] : q \in OptPtr(Texts)}
    \cup {[PropertyValue("phone_number") EXCEPT !.PhoneNumber = q] : q \in OptPtr(Texts)}
    \cup {[PropertyValue("number") EXCEPT !.Number = q] : q \in OptPtr(Numbers)}
    \cup {[PropertyValue("checkbox") EXCEPT !.Checkbox = q] : q \in OptPtr(BOOLEAN)}
    \cup {[PropertyValue("date") EXCEPT !.Date = q] : q \in OptPtr(DateValues)}
    \cup {[PropertyValue("relation") EXCEPT !.Relation = rs] : rs \in SeqsUpTo(RelationRefs, MaxFrags)}
    \cup {[PropertyValue("formula") EXCEPT !.Formula = q] : q \in OptPtr(FormulaValues)}

RollupOf(r) == [PropertyValue("rollup") EXCEPT !.Rollup = Ptr(r)]
RollupArray(items) == RollupOf([RollupValue("array") EXCEPT !.Array = items])

ArrayItems ==
    {[PropertyValue("select") EXCEPT !.Select = Ptr([Name |-> <<>>])],
     [PropertyValue("select") EXCEPT !.Select = Ptr([Name |-> <<"a">>])],
     [PropertyValue("title") EXCEPT !.Title = <<[PlainText |-> <<SP>>]>>],
     [PropertyValue("multi_select") EXCEPT !.MultiSelect = <<[Name |-> <<>>], [Name |-> <<"b">>]>>],
     [PropertyValue("number") EXCEPT !.Number = Ptr(10)],
     [PropertyValue("number") EXCEPT !.Number = Ptr(25)]}

NestedItems ==
    {RollupArray(<<>>),
     RollupArray(<<[PropertyValue("select") EXCEPT !.Select = Ptr([Name |-> <<>>])]>>),
     RollupArray(<<[PropertyValue("number") EXCEPT !.Number = Ptr(10)],
                   [PropertyValue("number") EXCEPT !.Number = Ptr(25)]>>),
     [PropertyValue("email") EXCEPT !.Email = Ptr(<<>>)]}

RollupValues ==
    {PropertyValue("rollup"), RollupOf(RollupValue("unknown"))}
    \cup {RollupOf([RollupValue("number") EXCEPT !.Number = q]) : q \in OptPtr(Numbers)}
    \cup {RollupOf([RollupValue("date") EXCEPT !.Date = q]) : q \in OptPtr(DateValues)}
    \cup {RollupArray(items) : items \in SeqsUpTo(ArrayItems, MaxFrags)}
    \cup {RollupArray(items) : items \in SeqsUpTo(NestedItems, MaxFrags)}

PropertyValues == LeafValues \cup RollupValues

----------------------------------------------------------------------------
(* The data source and the People database, as the server holds them *)

defaultWhoPropName == "Who"

\* A query response carries Results, HasMore and NextCursor.
QueryResponse(results, flags) ==
    [Results |-> results, HasMore |-> flags.HasMore, NextCursor |-> flags.NextCursor]

Token == <<"c">>      \* the cursor the server hands out for its second response
Flags == [HasMore : BOOLEAN, NextCursor : {Nil, Ptr(<<>>), Ptr(Token)}]
MoreFlags == [HasMore |-> TRUE, NextCursor |-> Ptr(Token)]

RichTextOf(s) == [PropertyValue("rich_text") EXCEPT !.RichText = <<[PlainText |-> s]>>]
TitleOf(s) == [PropertyValue("title") EXCEPT !.Title = <<[PlainText |-> s]>>]

\* Pages of the data source read by the querying command, by their properties.
QueryProperties ==
    {[Who |-> [PropertyValue("multi_select") EXCEPT !.MultiSelect = <<[Name |-> <<"b">>], [Name |-> <<"a">>]>>]],
     [Who |-> [PropertyValue("select") EXCEPT !.Select = Ptr([Name |-> <<"b">>])]],
     [Who |-> [PropertyValue("select") EXCEPT !.Select = Ptr([Name |-> <<SP>>])]],
     [Other |-> TitleOf(<<"x">>)]}

Alice == <<"A", "l", "i", "c", "e">>
Bob == <<"B", "o", "b">>
Carol == <<"C", "a", "r", "o", "l">>
AliceBobCarol == Alice \o <<",", " ">> \o Bob \o <<",", " ", " ">> \o Carol

\* Pages of the data source read by the people command.
PeopleProperties ==
    {[Name |-> TitleOf(<<"T">>), Who |-> RichTextOf(<<"a", ",", " ", "a">>)],
     [Name |-> TitleOf(<<"T">>), Who |-> RichTextOf(<<",", "a", ",", " ", ",", " ", "a">>)],
     [Name |-> TitleOf(<<"T">>), Who |-> RichTextOf(<<>>)],
     [Name |-> TitleOf(<<"T">>), Who |-> RichTextOf(AliceBobCarol)],
     [Name |-> TitleOf(<<"T">>)]}

\* The pages of a data source: page k has ID k.
Pages(props) == [k \in 1..Len(props) |-> [ID |-> k, Properties |-> props[k]]]

\* The server answers a query without cursor by its first response and a
\* query with cursor Token by its second.
Scripts(P) ==
    UNION {
        {<<QueryResponse(Pages(props), f)>> : f \in Flags}
        \cup {<<QueryResponse(SubSeq(Pages(props), 1, cut), MoreFlags),
                QueryResponse(SubSeq(Pages(props), cut + 1, Len(props)), f)>> :
                  cut \in 0..Len(props), f \in Flags}
        : props \in SeqsUpTo(P, MaxPages)}

KnownCursor(c) == IsNil(c) \/ (Deref(c) = Token /\ Len(script) >= 2)
Serve(c) == IF IsNil(c) THEN script[1] ELSE script[2]

SourcePages == Flatten([k \in 1..Len(script) |-> script[k].Results])

OldPerson == [ID |-> 100, Title |-> <<"z">>]

----------------------------------------------------------------------------
(* internal/notion operations used by the people command *)

\* The string of a title or rich text property; empty for anything else.
ExtractString(p) ==
    CASE p.Type = "title"     -> concatRichText(p.Title)
      [] p.Type = "rich_text" -> concatRichText(p.RichText)
      [] OTHER                -> <<>>

\* Pointer to the first page of the database whose title is exactly title.
FindPageByTitle(db, title) ==
    LET hits == {k \in 1..Len(db) : db[k].Title = title}
    IN  IF hits = {} THEN Nil ELSE Ptr(db[CHOOSE k \in hits : \A h \in hits : k <= h])

\* The page the server makes for a CreatePage request.
CreatedPage(db, title) == [ID |-> 100 + Len(db), Title |-> title]

----------------------------------------------------------------------------
(* main *)

Line(kind, text, id) == [kind |-> kind, text |-> text, id |-> id]

\* pg.Properties[name], and whether it is there
HasProperty(page, name) == name \in DOMAIN page.Properties
Property(page, name) ==
    IF HasProperty(page, name) THEN page.Properties[name] ELSE PropertyValue("")

\* main.go:70-77, the lines printed for the values of one property
RECURSIVE PrintValues(_)
PrintValues(vals) ==
    IF vals = <<>> THEN <<>>
    ELSE (IF TrimSpace(Head(vals)) = <<>> THEN <<>>
          ELSE <<Line("value", TrimSpace(Head(vals)), 0)>>) \o PrintValues(Tail(vals))

\* the split on a comma alone
extractPersons_Comma(who) ==
    LET persons == Split(who, <<",">>)
    IN  [k \in 1..Len(persons) |-> TrimSpace(persons[k])]

extractPersons(who) ==
    LET persons == Split(who, <<",", " ">>)
    IN  [k \in 1..Len(persons) |-> TrimSpace(persons[k])]

\* the loop condition without its test of HasMore
MoreToQuery_CursorOnly(r) == ~(IsNil(r.NextCursor) \/ Deref(r.NextCursor) = <<>>)

\* the loop condition without its test of the empty cursor
MoreToQuery_EmptyCursor(r) == ~(~r.HasMore \/ IsNil(r.NextCursor))

\* the loop condition: another query follows this response
MoreToQuery(r) == ~(~r.HasMore \/ IsNil(r.NextCursor) \/ Deref(r.NextCursor) = <<>>)

Exited == pc \in {"done", "fatal", "usage"}
CurPage == resp.Results[pg]
QueryCount == Cardinality({k \in 1..Len(requests) : requests[k].op = "query"})

Commands == {"query", "people"}
Args == [cmd : Commands, token : BOOLEAN, field : BOOLEAN, unique : BOOLEAN]

InitRun ==
    /\ pc = "start" /\ cursor = Nil /\ resp = <<>> /\ pg = 0
    /\ output = <<>> /\ requests = <<>> /\ responses = <<>>
    /\ cleanedPersons = <<>> /\ pn = 0 /\ peoplePageIDs = <<>>

Init ==
    /\ args \in Args
    /\ script \in (IF args.cmd = "query" THEN Scripts(QueryProperties) ELSE Scripts(PeopleProperties))
    /\ InitRun
    /\ people = <<OldPerson>>
    /\ relation = [k \in 1..Len(SourcePages) |-> <<OldPerson.ID>>]
    /\ run = 1
    /\ peopleAtStart = people
    /\ prop = <<>> /\ extracted = Nil

\* flag.Parse and the checks of the token and the field name.  Neither
\* program defines a flag other than -token and -field.
ParseFlags ==
    /\ pc = "start"
    /\ pc' = IF args.unique THEN "usage"
             ELSE IF ~args.token \/ ~args.field THEN "fatal"
             ELSE "query"
    /\ UNCHANGED <<args, script, cursor, resp, pg, output, requests, responses, upsertVars, extractVars>>

\* Query, with a failed request tried again
Query_Retry ==
    /\ pc = "query"
    /\ QueryCount < MaxQueries
    /\ \E ok \in {FALSE, KnownCursor(cursor)} :
         /\ requests' = Append(requests, [op |-> "query", cursor |-> cursor, ok |-> ok])
         /\ IF ok
            THEN /\ resp' = Serve(cursor)
                 /\ responses' = Append(responses, Serve(cursor))
                 /\ pg' = 1
                 /\ pc' = "pages"
            ELSE UNCHANGED <<pc, resp, responses, pg>>
    /\ UNCHANGED <<args, script, cursor, output, upsertVars, extractVars>>

\* One query request and its response.
Query ==
    /\ pc = "query"
    /\ QueryCount < MaxQueries
    /\ \E ok \in {FALSE, KnownCursor(cursor)} :
         /\ requests' = Append(requests, [op |-> "query", cursor |-> cursor, ok |-> ok])
         /\ IF ok
            THEN /\ resp' = Serve(cursor)
                 /\ responses' = Append(responses, Serve(cursor))
                 /\ pg' = 1
                 /\ pc' = "pages"
            ELSE /\ pc' = "fatal"
                 /\ UNCHANGED <<resp, responses, pg>>
    /\ UNCHANGED <<args, script, cursor, output, upsertVars, extractVars>>

\* PrintPage, with a page that lacks the property passed over
PrintPage_SkipMissing ==
    /\ pc = "pages" /\ args.cmd = "query"
    /\ pg <= Len(resp.Results)
    /\ output' = IF ~HasProperty(CurPage, defaultWhoPropName) THEN output
                 ELSE output \o PrintValues(ExtractStrings(Property(CurPage, defaultWhoPropName)))
    /\ pg' = pg + 1
    /\ UNCHANGED <<args, script, pc, cursor, resp, requests, responses, upsertVars, extractVars>>

\* The querying command: one page of the response.
PrintPage ==
    /\ pc = "pages" /\ args.cmd = "query"
    /\ pg <= Len(resp.Results)
    /\ IF ~HasProperty(CurPage, defaultWhoPropName)
       THEN /\ pc' = "fatal"
            /\ UNCHANGED <<pg, output>>
       ELSE /\ output' = output \o PrintValues(ExtractStrings(Property(CurPage, defaultWhoPropName)))
            /\ pg' = pg + 1
            /\ UNCHANGED pc
    /\ UNCHANGED <<args, script, cursor, resp, requests, responses, upsertVars, extractVars>>

\* After the last page of a response: stop or carry the cursor on.
NextQuery ==
    /\ pc = "pages"
    /\ pg > Len(resp.Results)
    /\ IF MoreToQuery(resp)
       THEN /\ cursor' = resp.NextCursor
            /\ pc' = "query"
       ELSE /\ pc' = "done"
            /\ UNCHANGED cursor
    /\ UNCHANGED <<args, script, resp, pg, output, requests, responses, upsertVars, extractVars>>

\* The people command: the head of the loop over the pages of a response.
SplitPage ==
    /\ pc = "pages" /\ args.cmd = "people"
    /\ pg <= Len(resp.Results)
    /\ output' = Append(output, Line("title", ExtractString(Property(CurPage, "Name")), CurPage.ID))
    /\ IF ~HasProperty(CurPage, defaultWhoPropName)
       THEN /\ pc' = "fatal"
            /\ UNCHANGED <<cleanedPersons, pn, peoplePageIDs>>
       ELSE /\ cleanedPersons' = extractPersons(ExtractString(Property(CurPage, defaultWhoPropName)))
            /\ pn' = 1
            /\ peoplePageIDs' = <<>>
            /\ pc' = "persons"
    /\ UNCHANGED <<args, script, cursor, resp, pg, requests, responses,
                   people, relation, run, peopleAtStart, extractVars>>

\* An empty name is passed over.
SkipEmpty ==
    /\ pc = "persons"
    /\ pn <= Len(cleanedPersons)
    /\ cleanedPersons[pn] = <<>>
    /\ pn' = pn + 1
    /\ UNCHANGED <<pipeVars, people, relation, cleanedPersons, peoplePageIDs, run,
                   peopleAtStart, extractVars>>

\* FindPerson, with the page found not used
FindPerson_AlwaysCreate ==
    /\ pc = "persons"
    /\ pn <= Len(cleanedPersons)
    /\ cleanedPersons[pn] # <<>>
    /\ LET personName == cleanedPersons[pn]
           existingPage == FindPageByTitle(people, personName)
       IN  \E ok \in BOOLEAN :
             /\ requests' = Append(requests, [op |-> "search", name |-> personName, ok |-> ok,
                                              found |-> ok /\ ~IsNil(existingPage)])
             /\ pc' = IF ok THEN "create" ELSE "fatal"
    /\ UNCHANGED <<args, script, cursor, resp, pg, output, responses, pn, peoplePageIDs,
                   people, relation, cleanedPersons, run, peopleAtStart, extractVars>>

\* The search for a page titled with the name; a page found gives its ID.
FindPerson ==
    /\ pc = "persons"
    /\ pn <= Len(cleanedPersons)
    /\ cleanedPersons[pn] # <<>>
    /\ LET personName == cleanedPersons[pn]
           existingPage == FindPageByTitle(people, personName)
       IN  \E ok \in BOOLEAN :
             /\ requests' = Append(requests, [op |-> "search", name |-> personName, ok |-> ok,
                                              found |-> ok /\ ~IsNil(existingPage)])
             /\ IF ~ok
                THEN /\ pc' = "fatal"
                     /\ UNCHANGED <<output, peoplePageIDs, pn>>
                ELSE IF ~IsNil(existingPage)
                THEN /\ output' = Append(output, Line("found", personName, Deref(existingPage).ID))
                     /\ peoplePageIDs' = Append(peoplePageIDs, Deref(existingPage).ID)
                     /\ pn' = pn + 1
                     /\ UNCHANGED pc
                ELSE /\ pc' = "create"
                     /\ UNCHANGED <<output, peoplePageIDs, pn>>
    /\ UNCHANGED <<args, script, cursor, resp, pg, responses,
                   people, relation, cleanedPersons, run, peopleAtStart, extractVars>>

\* CreatePerson, with the title of the new page left empty
CreatePerson_NoTitle ==
    /\ pc = "create"
    /\ LET personName == cleanedPersons[pn]
           peoplePage == CreatedPage(people, <<>>)
       IN  \E ok \in BOOLEAN :
             /\ requests' = Append(requests, [op |-> "create", name |-> personName, ok |-> ok])
             /\ IF ~ok
                THEN /\ pc' = "fatal"
                     /\ UNCHANGED <<output, people, peoplePageIDs, pn>>
                ELSE /\ people' = Append(people, peoplePage)
                     /\ output' = Append(output, Line("created", personName, peoplePage.ID))
                     /\ peoplePageIDs' = Append(peoplePageIDs, peoplePage.ID)
                     /\ pn' = pn + 1
                     /\ pc' = "persons"
    /\ UNCHANGED <<args, script, cursor, resp, pg, responses,
                   relation, cleanedPersons, run, peopleAtStart, extractVars>>

\* No page was found: one is created and gives its ID.
CreatePerson ==
    /\ pc = "create"
    /\ LET personName == cleanedPersons[pn]
           peoplePage == CreatedPage(people, personName)
       IN  \E ok \in BOOLEAN :
             /\ requests' = Append(requests, [op |-> "create", name |-> personName, ok |-> ok])
             /\ IF ~ok
                THEN /\ pc' = "fatal"
                     /\ UNCHANGED <<output, people, peoplePageIDs, pn>>
                ELSE /\ people' = Append(people, peoplePage)
                     /\ output' = Append(output, Line("created", personName, peoplePage.ID))
                     /\ peoplePageIDs' = Append(peoplePageIDs, peoplePage.ID)
                     /\ pn' = pn + 1
                     /\ pc' = "persons"
    /\ UNCHANGED <<args, script, cursor, resp, pg, responses,
                   relation, cleanedPersons, run, peopleAtStart, extractVars>>

\* WriteBack, without the test of the empty list
WriteBack_Always ==
    /\ pc = "persons"
    /\ pn > Len(cleanedPersons)
    /\ \E ok \in BOOLEAN :
         /\ requests' = Append(requests, [op |-> "update", page |-> CurPage.ID,
                                          ids |-> peoplePageIDs, ok |-> ok])
         /\ IF ~ok
            THEN /\ pc' = "fatal"
                 /\ UNCHANGED <<pg, relation>>
            ELSE /\ relation' = [relation EXCEPT ![CurPage.ID] = peoplePageIDs]
                 /\ pg' = pg + 1
                 /\ pc' = "pages"
    /\ UNCHANGED <<args, script, cursor, resp, output, responses,
                   people, cleanedPersons, pn, peoplePageIDs, run, peopleAtStart, extractVars>>

\* After the last name: the relation of the page is written, unless no
\* identifier was collected.
WriteBack ==
    /\ pc = "persons"
    /\ pn > Len(cleanedPersons)
    /\ IF Len(peoplePageIDs) = 0
       THEN /\ pg' = pg + 1
            /\ pc' = "pages"
            /\ UNCHANGED <<requests, relation>>
       ELSE \E ok \in BOOLEAN :
              /\ requests' = Append(requests, [op |-> "update", page |-> CurPage.ID,
                                               ids |-> peoplePageIDs, ok |-> ok])
              /\ IF ~ok
                 THEN /\ pc' = "fatal"
                      /\ UNCHANGED <<pg, relation>>
                 ELSE /\ relation' = [relation EXCEPT ![CurPage.ID] = peoplePageIDs]
                      /\ pg' = pg + 1
                      /\ pc' = "pages"
    /\ UNCHANGED <<args, script, cursor, resp, output, responses,
                   people, cleanedPersons, pn, peoplePageIDs, run, peopleAtStart, extractVars>>

\* The people command is run once more on the same data source.
RunAgain ==
    /\ pc = "done" /\ args.cmd = "people"
    /\ run = 1
    /\ run' = 2
    /\ peopleAtStart' = people
    /\ pc' = "start" /\ cursor' = Nil /\ resp' = <<>> /\ pg' = 0
    /\ output' = <<>> /\ requests' = <<>> /\ responses' = <<>>
    /\ cleanedPersons' = <<>> /\ pn' = 0 /\ peoplePageIDs' = <<>>
    /\ UNCHANGED <<args, script, people, relation, extractVars>>

Next ==
    \/ ParseFlags
    \/ Query
    \/ PrintPage
    \/ NextQuery
    \/ SplitPage
    \/ SkipEmpty
    \/ FindPerson
    \/ CreatePerson
    \/ WriteBack
    \/ RunAgain

Spec == Init /\ [][Next]_vars

----------------------------------------------------------------------------
(* Properties of the two commands *)

AtPage == pc = "pages" /\ pg <= Len(resp.Results)
AtEndOfResponse == pc = "pages" /\ pg > Len(resp.Results)
AtEndOfNames == pc = "persons" /\ pn > Len(cleanedPersons)
MissingHere == AtPage /\ ~HasProperty(CurPage, defaultWhoPropName)

Queries == SelectSeq(requests, LAMBDA r : r.op = "query")
TitleLines == SelectSeq(output, LAMBDA l : l.kind = "title")

\* the lines the querying command is to print for a sequence of pages: the
\* trimmed values that are not empty
RECURSIVE ValueLines(_)
ValueLines(pages) ==
    IF pages = <<>> THEN <<>>
    ELSE LET vals == ExtractStrings(Head(pages).Properties[defaultWhoPropName])
             kept == SelectSeq([k \in 1..Len(vals) |-> TrimSpace(vals[k])], LAMBDA v : v # <<>>)
         IN  [k \in 1..Len(kept) |-> Line("value", kept[k], 0)] \o ValueLines(Tail(pages))

PageIDs(pages) == [k \in 1..Len(pages) |-> pages[k].ID]

\* C1: when the first response has has_more and a non-empty cursor and the
\* second has not has_more, exactly two queries are issued, the first without
\* cursor and the second with the first response's cursor, and what is printed
\* for the pages of the first response precedes what is printed for those of
\* the second, in page order.
C1_Pagination ==
    (/\ Len(responses) >= 2
     /\ responses[1].HasMore
     /\ ~IsNil(responses[1].NextCursor) /\ Deref(responses[1].NextCursor) # <<>>
     /\ ~responses[2].HasMore)
    => /\ Len(Queries) = 2
       /\ IsNil(Queries[1].cursor)
       /\ Queries[2].cursor = responses[1].NextCursor
       /\ (pc = "done" /\ args.cmd = "query") =>
             output = ValueLines(responses[1].Results) \o ValueLines(responses[2].Results)
       /\ (pc = "done" /\ args.cmd = "people") =>
             [k \in 1..Len(TitleLines) |-> TitleLines[k].id]
                = PageIDs(responses[1].Results) \o PageIDs(responses[2].Results)

C1_Witness ==
    /\ pc = "done" /\ args.cmd = "query"
    /\ Len(responses) = 2 /\ responses[1].HasMore /\ ~responses[2].HasMore
    /\ Len(responses[1].Results) = 1 /\ Len(responses[2].Results) = 1
    /\ Len(Queries) = 2
    /\ output = <<Line("value", <<"b">>, 0), Line("value", <<"a">>, 0), Line("value", <<"b">>, 0)>>

\* C2 as stated: a page without the property ends the run in the error state
\* at once, with no further request and no further output.
C2_NoOutputForPage ==
    [][MissingHere => (pc' = "fatal" /\ requests' = requests /\ output' = output)]_vars

\* C2: a page without the property ends the run in the error state at once,
\* whatever the later pages hold: no request follows, the querying command
\* prints nothing more, the people command prints the title line of that page
\* and nothing more.
C2_AbortOnMissing ==
    [][/\ pc # "fatal"
       /\ MissingHere =>
            /\ pc' = "fatal"
            /\ requests' = requests
            /\ output' = IF args.cmd = "people"
                         THEN Append(output, Line("title", ExtractString(Property(CurPage, "Name")), CurPage.ID))
                         ELSE output]_vars

C2_Witness ==
    /\ pc = "fatal" /\ args.cmd = "people"
    /\ pg >= 1 /\ pg < Len(resp.Results)
    /\ ~HasProperty(CurPage, defaultWhoPropName) /\ HasProperty(resp.Results[pg + 1], defaultWhoPropName)
    /\ Len(output) = 1

Lines(texts) == [k \in 1..Len(texts) |-> Line("value", texts[k], 0)]

\* C3: with -unique the querying command prints each distinct value once, in
\* sorted order: pages holding b, a, b give the output a, b when the run ends.
C3_UniqueOutput ==
    (/\ args.cmd = "query" /\ args.unique /\ args.token /\ args.field
     /\ Exited
     /\ \A k \in 1..Len(SourcePages) : HasProperty(SourcePages[k], defaultWhoPropName)
     /\ ValueLines(SourcePages) = Lines(<<<<"b">>, <<"a">>, <<"b">>>>))
    => output = Lines(<<<<"a">>, <<"b">>>>)

\* C4: the second run of the people command on the same pages issues no
\* CreatePage request, finds every name it searches for and leaves the People
\* database as the first run left it.
C4_Idempotent ==
    (args.cmd = "people" /\ run = 2)
    => /\ pc # "create"
       /\ \A k \in 1..Len(requests) :
            /\ requests[k].op # "create"
            /\ (requests[k].op = "search" /\ requests[k].ok) => requests[k].found
       /\ people = peopleAtStart

C4_Witness ==
    /\ args.cmd = "people" /\ run = 2 /\ pc = "done"
    /\ Len(people) = 4
    /\ Len(SelectSeq(requests, LAMBDA r : r.op = "search")) = 3
    /\ Len(SelectSeq(requests, LAMBDA r : r.op = "update")) = 1

\* the identifiers of the People pages titled with the non-empty names, in order
CollectedFor(names) ==
    LET kept == SelectSeq(names, LAMBDA n : n # <<>>)
    IN  [k \in 1..Len(kept) |-> Deref(FindPageByTitle(people, kept[k])).ID]

LastRequest(log) == log[Len(log)]

\* C6: after the names of a page, an UpdatePage request is issued exactly when
\* identifiers were collected; it carries the identifiers of the non-empty
\* names in order, repeats included, and replaces the relation of that page;
\* no other step issues an update or changes a relation.
C6_WriteBack ==
    [][/\ AtEndOfNames =>
            /\ peoplePageIDs = CollectedFor(cleanedPersons)
            /\ IF peoplePageIDs = <<>>
               THEN requests' = requests /\ relation' = relation
               ELSE /\ Len(requests') = Len(requests) + 1
                    /\ LastRequest(requests').op = "update"
                    /\ LastRequest(requests').page = CurPage.ID
                    /\ LastRequest(requests').ids = peoplePageIDs
                    /\ relation' = IF LastRequest(requests').ok
                                   THEN [relation EXCEPT ![CurPage.ID] = peoplePageIDs]
                                   ELSE relation
       /\ ~AtEndOfNames =>
            /\ relation' = relation
            /\ Len(requests') > Len(requests) => LastRequest(requests').op # "update"]_vars

C6_Witness ==
    /\ pc = "done" /\ run = 1
    /\ relation = <<<<101, 101>>, <<100>>>>
    /\ Len(SelectSeq(requests, LAMBDA r : r.op = "update")) = 1

\* C7: a failed request is the last request of the run and leaves the run in
\* the error state, which nothing follows.
C7_ErrorsFatal ==
    [][/\ pc # "fatal"
       /\ \A k \in 1..Len(requests') :
            ~requests'[k].ok => (k = Len(requests') /\ pc' = "fatal")]_vars

C7_Witness ==
    /\ pc = "fatal"
    /\ Len(requests) >= 3
    /\ LastRequest(requests).op = "create" /\ ~LastRequest(requests).ok
    /\ \E k \in 1..Len(requests) : requests[k].op = "create" /\ requests[k].ok

\* C8: after the last page of a response another query follows exactly when
\* the response has has_more and a next cursor that is there and not empty,
\* and it carries that cursor; otherwise the run ends without error.
C8_StopCondition ==
    [][/\ AtEndOfResponse =>
            IF resp.HasMore /\ ~IsNil(resp.NextCursor) /\ Deref(resp.NextCursor) # <<>>
            THEN pc' = "query" /\ cursor' = resp.NextCursor
            ELSE pc' = "done" /\ requests' = requests
       /\ (pc' = "query" /\ pc # "query") => (pc = "start" \/ AtEndOfResponse)
       /\ Len(requests') > Len(requests) /\ LastRequest(requests').op = "query"
            => (pc = "query" /\ LastRequest(requests').cursor = cursor)]_vars

C8_Witness ==
    /\ pc = "done"
    /\ Len(responses) = 1
    /\ responses[1].HasMore
    /\ responses[1].NextCursor = Ptr(<<>>)
    /\ Len(Queries) = 1

Who == ExtractString(Property(CurPage, defaultWhoPropName))
InNames == pc \in {"persons", "create"}
NoComma == <<",", "a", ",", " ", ",", " ", "a">>

\* C9 as stated: "Alice, Bob,  Carol" is split into "Alice" and "Bob,  Carol".
C9_TwoNames ==
    (InNames /\ Who = AliceBobCarol)
    => cleanedPersons = <<Alice, Bob \o <<",", " ", " ">> \o Carol>>

\* C9: the names are the trimmed pieces between occurrences of ", ":
\* "Alice, Bob,  Carol" gives Alice, Bob, Carol and ",a, , a" gives ",a", the
\* empty name and "a"; no search, create or collected identifier is for an
\* empty name.
C9_Split ==
    /\ (InNames /\ Who = AliceBobCarol) => cleanedPersons = <<Alice, Bob, Carol>>
    /\ (InNames /\ Who = NoComma) => cleanedPersons = <<<<",", "a">>, <<>>, <<"a">>>>
    /\ \A k \in 1..Len(requests) :
         requests[k].op \in {"search", "create"} => requests[k].name # <<>>
    /\ InNames =>
         Len(peoplePageIDs) = Len(SelectSeq(SubSeq(cleanedPersons, 1, pn - 1), LAMBDA n : n # <<>>))

C9_Witness ==
    /\ pc = "done"
    /\ Len(SourcePages) = 2
    /\ ExtractString(Property(SourcePages[1], defaultWhoPropName)) = AliceBobCarol
    /\ ExtractString(Property(SourcePages[2], defaultWhoPropName)) = NoComma
    /\ relation = <<<<101, 102, 103>>, <<104, 105>>>>

\* C10: a CreatePage request for a name directly follows a search for that
\* name that found no page, and no two People pages have the same title.
C10_SearchBeforeCreate ==
    /\ \A k \in 1..Len(requests) :
         requests[k].op = "create" =>
            /\ k > 1
            /\ requests[k - 1].op = "search"
            /\ requests[k - 1].name = requests[k].name
            /\ requests[k - 1].ok /\ ~requests[k - 1].found
    /\ \A x, y \in 1..Len(people) : people[x].Title = people[y].Title => x = y

C10_Witness ==
    /\ run = 1 /\ pc = "done"
    /\ Len(people) = 2
    /\ Len(SelectSeq(output, LAMBDA l : l.kind = "found")) = 3
    /\ Len(SelectSeq(output, LAMBDA l : l.kind = "created")) = 1

IdlePipe ==
    /\ args = <<>> /\ script = <<>> /\ pc = "idle" /\ cursor = Nil /\ resp = <<>>
    /\ pg = 0 /\ output = <<>> /\ requests = <<>> /\ responses = <<>>

IdleUpsert ==
    /\ people = <<>> /\ relation = <<>> /\ cleanedPersons = <<>> /\ pn = 0
    /\ peoplePageIDs = <<>> /\ run = 0 /\ peopleAtStart = <<>>

InitExtract ==
    /\ prop \in PropertyValues
    /\ extracted = Nil
    /\ IdlePipe /\ IdleUpsert

Extract ==
    /\ pc = "idle"
    /\ IsNil(extracted)
    /\ extracted' = Ptr(ExtractStrings(prop))
    /\ UNCHANGED <<prop, pipeVars, upsertVars>>

NextExtract == Extract

SpecExtract == InitExtract /\ [][NextExtract]_vars

\* C5: no element of the sequence ExtractStrings returns is the empty string,
\* whatever the variant of the property value (formula, rollup and nested
\* rollup arrays included).
C5_NoEmptyString ==
    ~IsNil(extracted) => \A k \in 1..Len(Deref(extracted)) : Deref(extracted)[k] # <<>>

\* a rollup array holding a nested rollup array whose empty select name was left out
C5_Witness ==
    /\ ~IsNil(extracted)
    /\ prop.Type = "rollup"
    /\ ~IsNil(prop.Rollup)
    /\ Len(Deref(prop.Rollup).Array) = 2
    /\ Deref(prop.Rollup).Array[1].Type = "rollup"
    /\ Deref(prop.Rollup).Array[1] = RollupArray(<<[PropertyValue("select") EXCEPT !.Select = Ptr([Name |-> <<>>])]>>)
    /\ Deref(prop.Rollup).Array[2].Type = "rollup"
    /\ Deref(extracted) = <<<<"1">>, <<"2", ".", "5">>>>

====
